---- MODULE Spec2Model ----
(***************************************************************************)
(* Model of app.py: a Streamlit page over an owlready2 ontology of recipes *)
(* and ingredients.  The store is the in-memory ontology (cached by        *)
(* load_ontology), the operations are the closure builder, the reasoner    *)
(* adapter, the fallback classifier, the compatibility evaluator and the   *)
(* button handlers of the page.                                            *)
(*                                                                         *)
(* Three specifications share the store variables:                         *)
(*   SpecClosure  one recipe, edited and closed in any order (C1-C3)       *)
(*   SpecQuery    one recipe, classified and filtered         (C4-C7)      *)
(*   Spec         the page: every script run and its handler  (C8-C10)     *)
(***************************************************************************)
EXTENDS Naturals, Sequences, FiniteSets

VARIABLES
    ingredients,      \* names of the onto.Ingredient instances of the store
    recipes,          \* names of the onto.Recette instances of the store
    aPourIngredient,  \* recipe name -> list of ingredient names
    is_a,             \* recipe name -> list of axioms (classes, restrictions)
    pc,               \* position of the page: "top" of the script or "widgets"
    saved,            \* the store as handed to the last onto.save, or NoSave
    reasonerInput,    \* the store as handed to the last sync_reasoner_pellet
    lastCall,         \* the operation or handler that ran last
    handlerSaved,     \* did the last handler call save_ontology
    mutated,          \* did the last handler change the store
    recette,          \* the recipe the last unit call was made on
    before,           \* closure facts the recipe held before the last call
    streak,           \* consecutive apply_closure_to_recipe calls, up to 2
    ret,              \* boolean result of the last call
    types,            \* label list returned by the last get_inferred_types
    profile           \* profile name of the last check_compatibility

vars == <<ingredients, recipes, aPourIngredient, is_a, pc, saved,
          reasonerInput, lastCall, handlerSaved, mutated, recette, before,
          streak, ret, types, profile>>

----------------------------------------------------------------------------
(* Bounds *)

\* longest ingredient list a recipe reaches
MaxIngredients == 2

\* most closure facts a loaded recipe holds
MaxClosures == 2

----------------------------------------------------------------------------
(* Type hierarchy of the ontology file (ontologierecette.owl) *)

Categories == {"Viande", "ProduitMarin", "ProduitLaitier", "Oeuf", "Fruit",
               "Cereale", "CerealeAvecGluten", "Legumineuse", "Oleagineux"}

\* the classes a category is a subclass of, itself included
Ancestors(cat) ==
    {cat, "Ingredient"}
      \cup (IF cat \in {"Viande", "ProduitMarin", "ProduitLaitier", "Oeuf"}
            THEN {"ProduitAnimal"} ELSE {})
      \cup (IF cat = "CerealeAvecGluten" THEN {"Cereale"} ELSE {})

\* the individuals of the model: the default data of the page, one egg and
\* one peanut so that every category and the name test have an instance
CategoryOf ==
    [n \in {"Poulet", "Saumon", "Lait", "OeufPoule", "Tomate", "Riz",
            "Farine", "Lentilles", "Amandes", "Arachide"} |->
        CASE n = "Poulet"    -> "Viande"
          [] n = "Saumon"    -> "ProduitMarin"
          [] n = "Lait"      -> "ProduitLaitier"
          [] n = "OeufPoule" -> "Oeuf"
          [] n = "Tomate"    -> "Fruit"
          [] n = "Riz"       -> "Cereale"
          [] n = "Farine"    -> "CerealeAvecGluten"
          [] n = "Lentilles" -> "Legumineuse"
          [] n = "Amandes"   -> "Oleagineux"
          [] n = "Arachide"  -> "Oleagineux"]

IngredientNames == DOMAIN CategoryOf

\* the individuals the page specifications create and delete
StoreNames == {"Poulet", "Tomate", "Lentilles"}

\* the individuals the closure specification puts in and out of its recipe
UnitNames == {"Poulet", "Tomate"}

RecipeNames == {"PouletRoti", "SaladeLentilles"}

\* isinstance(ing, onto.<cls>)
IsInstance(ing, cls) == cls \in Ancestors(CategoryOf[ing])

\* "arachide" in ing.name.lower()
NameHasArachide(ing) == ing = "Arachide"

----------------------------------------------------------------------------
(* Sequences *)

Range(s) == {s[i] : i \in 1..Len(s)}

SeqsUpTo(S, n) == UNION {[1..k -> S] : k \in 0..n}

\* any(test(x) for x in s)
Any(s, Test(_)) == \E i \in 1..Len(s) : Test(s[i])

\* duplicate-free lists over S, as a multiselect returns them
Selections(S, n) ==
    {s \in SeqsUpTo(S, n) : \A i, j \in 1..Len(s) : s[i] = s[j] => i = j}

----------------------------------------------------------------------------
(* Axioms of an individual's is_a list *)

ClassAx(c) == [kind |-> "Class", ref |-> c, oneOf |-> <<>>]

\* onto.<p>.only(OneOf(l))
OnlyOneOf(p, l) == [kind |-> "Restriction", ref |-> p, oneOf |-> l]

\* isinstance(ax, Restriction) and ax.property == onto.aPourIngredient
IsClosure(ax) == ax.kind = "Restriction" /\ ax.ref = "aPourIngredient"

IsNotClosure(ax) == ~IsClosure(ax)

\* the closure facts of an is_a list, in order
ClosureFacts(isa) == SelectSeq(isa, IsClosure)

----------------------------------------------------------------------------
(* Closure builder *)

\* a loop over the live list instead of a copy: after a removal the next
\* axiom slides under the cursor and is skipped
remove_existing_live(isa) ==
    LET RECURSIVE Walk(_, _)
        Walk(l, i) ==
            IF i > Len(l) THEN l
            ELSE IF IsClosure(l[i])
                 THEN Walk(SubSeq(l, 1, i - 1) \o SubSeq(l, i + 1, Len(l)),
                           i + 1)
                 ELSE Walk(l, i + 1)
    IN  Walk(isa, 1)

remove_existing_aPourIngredient_closure(isa) == SelectSeq(isa, IsNotClosure)

\* the empty list returns before the old closures are retracted
apply_closure_early_return(isa, ings) ==
    IF ings = <<>>
    THEN [is_a |-> isa, ret |-> FALSE]
    ELSE [is_a |-> Append(remove_existing_aPourIngredient_closure(isa),
                          OnlyOneOf("aPourIngredient", ings)),
          ret  |-> TRUE]

\* the new closure is appended without retracting the old ones
apply_closure_stacking(isa, ings) ==
    IF ings = <<>>
    THEN [is_a |-> remove_existing_aPourIngredient_closure(isa),
          ret  |-> FALSE]
    ELSE [is_a |-> Append(isa, OnlyOneOf("aPourIngredient", ings)),
          ret  |-> TRUE]

\* the result is the new is_a list and the returned boolean; OneOf and only
\* take any list of individuals, so the except branch has no input here
apply_closure_to_recipe(isa, ings) ==
    LET cleared == remove_existing_aPourIngredient_closure(isa)
    IN  IF ings = <<>>
        THEN [is_a |-> cleared, ret |-> FALSE]
        ELSE [is_a |-> Append(cleared, OnlyOneOf("aPourIngredient", ings)),
              ret  |-> TRUE]

\* the closure is applied to the first recipe only
apply_closure_first_only(rs, ap, isa) ==
    LET first == CHOOSE r \in rs : TRUE
    IN  [r \in RecipeNames |->
            IF rs # {} /\ r = first
            THEN apply_closure_to_recipe(isa[r], ap[r]).is_a
            ELSE isa[r]]

\* the is_a function after the loop over onto.Recette.instances()
apply_closure_to_all_recipes(rs, ap, isa) ==
    [r \in RecipeNames |->
        IF r \in rs THEN apply_closure_to_recipe(isa[r], ap[r]).is_a
        ELSE isa[r]]

----------------------------------------------------------------------------
(* Reasoner adapter *)

RecipeClasses == <<"RecetteCarnee", "RecetteVegane", "RecetteVegetarienne",
                   "RecetteSansGluten">>

IsViande(ing) == IsInstance(ing, "Viande")
IsProduitMarin(ing) == IsInstance(ing, "ProduitMarin")
IsProduitAnimal(ing) == IsInstance(ing, "ProduitAnimal")
IsProduitLaitier(ing) == IsInstance(ing, "ProduitLaitier")
IsCerealeAvecGluten(ing) == IsInstance(ing, "CerealeAvecGluten")
IsViandeOrProduitMarin(ing) == IsViande(ing) \/ IsProduitMarin(ing)
IsArachide(ing) == IsInstance(ing, "Oleagineux") /\ NameHasArachide(ing)

\* s if b else the empty list
When(b, s) == IF b THEN s ELSE <<>>

\* the category classes the reasoner derives for a recipe: the meat class
\* from the asserted ingredients, the absence classes only under a closure
\* fact, whose enumeration is all the recipe can have
DerivedClasses(isa, ings) ==
    LET facts  == ClosureFacts(isa)
        closed == facts # <<>>
        fills  == IF closed THEN facts[1].oneOf ELSE <<>>
    IN  When(Any(ings, IsViande), <<"RecetteCarnee">>)
        \o When(closed /\ ~Any(fills, IsProduitAnimal), <<"RecetteVegane">>)
        \o When(closed /\ ~Any(fills, IsViandeOrProduitMarin),
                <<"RecetteVegetarienne">>)
        \o When(closed /\ ~Any(fills, IsCerealeAvecGluten),
                <<"RecetteSansGluten">>)

\* the is_a list of a recipe after sync_reasoner_pellet: the named classes
\* are replaced by the derived ones, the restrictions are kept
sync_reasoner_pellet(isa, ings) ==
    LET derived == DerivedClasses(isa, ings)
    IN  (IF derived = <<>> THEN <<ClassAx("Recette")>>
         ELSE [i \in 1..Len(derived) |-> ClassAx(derived[i])])
        \o ClosureFacts(isa)

\* isinstance(recette, onto.<cls>)
IsRecette(isa, cls) == ClassAx(cls) \in Range(isa)

----------------------------------------------------------------------------
(* Classification display and fallback classifier *)

\* the labels of the reasoner-derived classes
reasoner_types(isa) ==
    When(IsRecette(isa, "RecetteCarnee"), <<"Carnee">>)
    \o When(IsRecette(isa, "RecetteVegane"), <<"Vegane">>)
    \o When(IsRecette(isa, "RecetteVegetarienne"), <<"Vegetarienne">>)
    \o When(IsRecette(isa, "RecetteSansGluten"), <<"Sans Gluten">>)

\* the vegetarian test looks at meat only
fallback_types_meat_only(ings) ==
    When(Any(ings, IsViande), <<"CarneeL">>)
    \o When(~Any(ings, IsProduitAnimal), <<"VeganeL">>)
    \o When(~Any(ings, IsViande), <<"VegetarienneL">>)
    \o When(~Any(ings, IsCerealeAvecGluten), <<"Sans GlutenL">>)

\* the vegetarian label is given to the recipes with meat or fish
fallback_types_inverted(ings) ==
    When(Any(ings, IsViande), <<"CarneeL">>)
    \o When(~Any(ings, IsProduitAnimal), <<"VeganeL">>)
    \o When(Any(ings, IsViandeOrProduitMarin), <<"VegetarienneL">>)
    \o When(~Any(ings, IsCerealeAvecGluten), <<"Sans GlutenL">>)

\* the manual inference over the ingredient list
fallback_types(ings) ==
    LET has_animal       == Any(ings, IsProduitAnimal)
        has_meat_or_fish == Any(ings, IsViandeOrProduitMarin)
        has_meat         == Any(ings, IsViande)
        has_gluten       == Any(ings, IsCerealeAvecGluten)
    IN  When(has_meat, <<"CarneeL">>)
        \o When(~has_animal, <<"VeganeL">>)
        \o When(~has_meat_or_fish, <<"VegetarienneL">>)
        \o When(~has_gluten, <<"Sans GlutenL">>)

\* the fallback labels are added whatever the reasoner derived
get_inferred_types_merged(isa, ings) ==
    reasoner_types(isa) \o fallback_types(ings)

get_inferred_types(isa, ings) ==
    LET derived == reasoner_types(isa)
    IN  IF derived = <<>> THEN fallback_types(ings) ELSE derived

----------------------------------------------------------------------------
(* Compatibility evaluator *)

ProfileNames == {"Vegetarien", "Vegane", "SansGluten", "AllergieGluten",
                 "AllergieLactose", "AllergieArachide", "Keto", "Tous"}

\* the gluten allergy is not treated as the gluten-free profile
check_compatibility_one_name(ings, profile_name) ==
    CASE profile_name = "Vegetarien" -> ~Any(ings, IsViandeOrProduitMarin)
      [] profile_name = "Vegane" -> ~Any(ings, IsProduitAnimal)
      [] profile_name = "SansGluten" -> ~Any(ings, IsCerealeAvecGluten)
      [] profile_name = "AllergieLactose" -> ~Any(ings, IsProduitLaitier)
      [] profile_name = "AllergieArachide" -> ~Any(ings, IsArachide)
      [] OTHER -> TRUE

check_compatibility(ings, profile_name) ==
    CASE profile_name = "Vegetarien" -> ~Any(ings, IsViandeOrProduitMarin)
      [] profile_name = "Vegane" -> ~Any(ings, IsProduitAnimal)
      [] profile_name \in {"SansGluten", "AllergieGluten"} ->
            ~Any(ings, IsCerealeAvecGluten)
      [] profile_name = "AllergieLactose" -> ~Any(ings, IsProduitLaitier)
      [] profile_name = "AllergieArachide" -> ~Any(ings, IsArachide)
      [] OTHER -> TRUE

----------------------------------------------------------------------------
(* The store *)

Store == [ingredients |-> ingredients, recipes |-> recipes,
          aPourIngredient |-> aPourIngredient, is_a |-> is_a]

\* onto.save(file=file_path): the file holds the store of that moment
save_ontology(st) == <<st>>

\* s without the occurrences of x
Without(s, x) == LET Keep(y) == y # x IN SelectSeq(s, Keep)

\* destroy_entity(ing) seen from a recipe: the ingredient leaves the list;
\* the constructs that enumerate it are either destroyed with it or left as
\* they are
destroy_in_is_a(isa, ing, dropped) ==
    LET Keep(ax) == ~(IsClosure(ax) /\ ing \in Range(ax.oneOf))
    IN  IF dropped THEN SelectSeq(isa, Keep) ELSE isa

\* does a run of the closure builder over the recipes retract or assert a
\* fact
ClosureRewrites(rs, ap, isa) ==
    \E r \in rs : ClosureFacts(isa[r]) # <<>> \/ ap[r] # <<>>

\* every recipe with ingredients holds one closure fact, over its list
Closed(st) ==
    \A r \in st.recipes :
        st.aPourIngredient[r] # <<>> =>
            ClosureFacts(st.is_a[r])
                = <<OnlyOneOf("aPourIngredient", st.aPourIngredient[r])>>

----------------------------------------------------------------------------
(* SpecClosure: one recipe, its list edited and closed in any order *)

InitClosure ==
    /\ ingredients = StoreNames
    /\ \E r \in {"PouletRoti"} :
         /\ recipes = {r}
         /\ recette = r
         /\ \E l \in SeqsUpTo(UnitNames, MaxIngredients) :
              aPourIngredient =
                 [x \in RecipeNames |-> IF x = r THEN l ELSE <<>>]
         /\ \E ls \in SeqsUpTo(SeqsUpTo(UnitNames, MaxIngredients),
                                MaxClosures) :
              is_a = [x \in RecipeNames |->
                        IF x = r
                        THEN <<ClassAx("Recette")>>
                             \o [i \in 1..Len(ls) |->
                                   OnlyOneOf("aPourIngredient", ls[i])]
                        ELSE <<>>]
    /\ pc = "unit"
    /\ saved = <<>>
    /\ reasonerInput = <<>>
    /\ lastCall = "load"
    /\ handlerSaved = FALSE
    /\ mutated = FALSE
    /\ before = <<>>
    /\ streak = 0
    /\ ret = FALSE
    /\ types = <<>>
    /\ profile = "Tous"

\* new_recipe.aPourIngredient.append(ingredient)
AppendIngredient(ing) ==
    /\ Len(aPourIngredient[recette]) < MaxIngredients
    /\ aPourIngredient' =
          [aPourIngredient EXCEPT ![recette] = Append(@, ing)]
    /\ lastCall' = "append"
    /\ streak' = 0
    /\ UNCHANGED <<ingredients, recipes, is_a, pc, saved, reasonerInput,
                   handlerSaved, mutated, recette, before, ret, types, profile>>

\* destroy_entity(ing), seen from the recipe
RemoveIngredient(ing, dropped) ==
    /\ ing \in Range(aPourIngredient[recette])
    /\ aPourIngredient' =
          [aPourIngredient EXCEPT ![recette] = Without(@, ing)]
    /\ is_a' = [is_a EXCEPT ![recette] = destroy_in_is_a(@, ing, dropped)]
    /\ lastCall' = "remove"
    /\ streak' = 0
    /\ UNCHANGED <<ingredients, recipes, pc, saved, reasonerInput,
                   handlerSaved, mutated, recette, before, ret, types, profile>>

CallApplyClosure ==
    LET res == apply_closure_to_recipe(is_a[recette], aPourIngredient[recette])
    IN  /\ before' = ClosureFacts(is_a[recette])
        /\ is_a' = [is_a EXCEPT ![recette] = res.is_a]
        /\ ret' = res.ret
        /\ lastCall' = "apply_closure_to_recipe"
        /\ streak' = IF streak < 2 THEN streak + 1 ELSE 2
        /\ UNCHANGED <<ingredients, recipes, aPourIngredient, pc, saved,
                       reasonerInput, handlerSaved, mutated, recette, types,
                       profile>>

NextClosure ==
    \/ \E ing \in UnitNames : AppendIngredient(ing)
    \/ \E ing \in UnitNames, dropped \in BOOLEAN :
          RemoveIngredient(ing, dropped)
    \/ CallApplyClosure

SpecClosure == InitClosure /\ [][NextClosure]_vars

----------------------------------------------------------------------------
(* Claims on the closure builder, checked under SpecClosure *)

AfterApply == lastCall = "apply_closure_to_recipe"

\* C1: once apply_closure_to_recipe has returned, whatever appends, removals
\* and applications came before and however many closure facts the recipe
\* held, the recipe holds at most one closure fact, and applying the closure
\* again to the unchanged recipe gives the same is_a list.
C1_AtMostOneClosure ==
    AfterApply =>
        /\ Len(ClosureFacts(is_a[recette])) <= 1
        /\ apply_closure_to_recipe(is_a[recette],
                                   aPourIngredient[recette]).is_a
              = is_a[recette]

\* two applications in a row; the second found the single fact of the first
C1_Witness ==
    /\ AfterApply
    /\ streak = 2
    /\ Len(before) = 1
    /\ ClosureFacts(is_a[recette]) = before

\* one application on a recipe that held several closure facts
C1_WitnessStacked ==
    /\ AfterApply
    /\ Len(before) >= 2
    /\ Len(ClosureFacts(is_a[recette])) = 1

\* C2: right after apply_closure_to_recipe returned true on a recipe with
\* ingredients, the recipe's closure facts are one fact that enumerates the
\* current ingredient list, nothing of an older closure and nothing missing.
C2_ClosureIsCurrentList ==
    (AfterApply /\ ret /\ aPourIngredient[recette] # <<>>) =>
        /\ ClosureFacts(is_a[recette])
              = <<OnlyOneOf("aPourIngredient", aPourIngredient[recette])>>
        /\ Range(ClosureFacts(is_a[recette])[1].oneOf)
              = Range(aPourIngredient[recette])

\* the closure is reapplied after an edit: the fact it replaces enumerated
\* another set
C2_Witness ==
    /\ AfterApply
    /\ ret
    /\ before # <<>>
    /\ Range(before[1].oneOf) # Range(aPourIngredient[recette])
    /\ Len(ClosureFacts(is_a[recette])) = 1

\* C3: on a recipe without ingredients apply_closure_to_recipe returns false
\* and leaves no closure fact, also when the recipe held some before.
C3_EmptyRecipeNoClosure ==
    (AfterApply /\ aPourIngredient[recette] = <<>>) =>
        /\ ret = FALSE
        /\ ClosureFacts(is_a[recette]) = <<>>

\* the recipe held closure facts, which the call retracted
C3_Witness ==
    /\ AfterApply
    /\ aPourIngredient[recette] = <<>>
    /\ before # <<>>
    /\ ret = FALSE

----------------------------------------------------------------------------
(* SpecQuery: one recipe, classified and filtered *)

QueryLists == SeqsUpTo(IngredientNames, MaxIngredients)

\* the named classes a recipe can carry: Recette alone, or what a reasoner
\* run left when the recipe had the list l, which may since have changed
LoadedClasses ==
    {<<ClassAx("Recette")>>}
      \cup {SelectSeq(
               sync_reasoner_pellet(
                   apply_closure_to_recipe(<<ClassAx("Recette")>>, l).is_a, l),
               IsNotClosure) : l \in QueryLists}

InitQuery ==
    /\ ingredients = IngredientNames
    /\ recipes = {"PouletRoti"}
    /\ recette = "PouletRoti"
    /\ \E l \in QueryLists, cs \in LoadedClasses :
         /\ aPourIngredient =
               [x \in RecipeNames |-> IF x = "PouletRoti" THEN l ELSE <<>>]
         /\ is_a = [x \in RecipeNames |->
                      IF x = "PouletRoti"
                      THEN apply_closure_to_recipe(cs, l).is_a
                      ELSE <<>>]
    /\ pc = "query"
    /\ saved = <<>>
    /\ reasonerInput = <<>>
    /\ lastCall = "load"
    /\ handlerSaved = FALSE
    /\ mutated = FALSE
    /\ before = <<>>
    /\ streak = 0
    /\ ret = FALSE
    /\ types = <<>>
    /\ profile = "Tous"

CallGetInferredTypes ==
    /\ types' = get_inferred_types(is_a[recette], aPourIngredient[recette])
    /\ lastCall' = "get_inferred_types"
    /\ UNCHANGED <<ingredients, recipes, aPourIngredient, is_a, pc, saved,
                   reasonerInput, handlerSaved, mutated, recette, before,
                   streak, ret, profile>>

CallCheckCompatibility(profile_name) ==
    /\ ret' = check_compatibility(aPourIngredient[recette], profile_name)
    /\ profile' = profile_name
    /\ lastCall' = "check_compatibility"
    /\ UNCHANGED <<ingredients, recipes, aPourIngredient, is_a, pc, saved,
                   reasonerInput, handlerSaved, mutated, recette, before,
                   streak, types>>

NextQuery ==
    \/ CallGetInferredTypes
    \/ \E profile_name \in ProfileNames : CallCheckCompatibility(profile_name)

SpecQuery == InitQuery /\ [][NextQuery]_vars

----------------------------------------------------------------------------
(* Claims on classification and compatibility, checked under SpecQuery *)

\* the categories of the ingredients of the queried recipe
CategoriesOf(r) == {CategoryOf[ing] : ing \in Range(aPourIngredient[r])}

AnimalProduct == {"Viande", "ProduitMarin", "ProduitLaitier", "Oeuf"}

AfterTypes == lastCall = "get_inferred_types"

\* no category class among the named classes of the recipe
NothingDerived(r) ==
    \A i \in 1..Len(RecipeClasses) : ~IsRecette(is_a[r], RecipeClasses[i])

ReasonerLabels == {"Carnee", "Vegane", "Vegetarienne", "Sans Gluten"}

FallbackLabels == {"CarneeL", "VeganeL", "VegetarienneL", "Sans GlutenL"}

\* C4: when the reasoner derived no category for the recipe,
\* get_inferred_types returns the fallback labels of four independent
\* predicates: Carnivorous iff some ingredient is Viande, Vegan iff none is
\* an animal product, Vegetarian iff none is Viande or ProduitMarin,
\* GlutenFree iff none is CerealeAvecGluten; on an empty list the three
\* absence labels and not Carnivorous.
C4_FallbackPredicates ==
    (AfterTypes /\ NothingDerived(recette)) =>
        LET cats == CategoriesOf(recette)
            got  == Range(types)
        IN  /\ got \subseteq FallbackLabels
            /\ Len(types) = Cardinality(got)
            /\ "CarneeL" \in got <=> "Viande" \in cats
            /\ "VeganeL" \in got <=> cats \cap AnimalProduct = {}
            /\ "VegetarienneL" \in got
                  <=> cats \cap {"Viande", "ProduitMarin"} = {}
            /\ "Sans GlutenL" \in got <=> "CerealeAvecGluten" \notin cats
            /\ aPourIngredient[recette] = <<>>
                  => types = <<"VeganeL", "VegetarienneL", "Sans GlutenL">>

\* the fallback ran on a vegetarian recipe that is not vegan and has gluten
C4_Witness ==
    /\ AfterTypes
    /\ NothingDerived(recette)
    /\ types = <<"VegetarienneL">>

\* the fallback ran on a recipe without ingredients
C4_WitnessEmpty ==
    /\ AfterTypes
    /\ NothingDerived(recette)
    /\ aPourIngredient[recette] = <<>>
    /\ types = <<"VeganeL", "VegetarienneL", "Sans GlutenL">>

\* C5: a label list of get_inferred_types with a Vegan label, derived or
\* fallback, has a Vegetarian label too.
C5_VeganImpliesVegetarian ==
    AfterTypes =>
        /\ "Vegane" \in Range(types) => "Vegetarienne" \in Range(types)
        /\ "VeganeL" \in Range(types) => "VegetarienneL" \in Range(types)

\* the fallback marked a recipe vegan
C5_Witness ==
    /\ AfterTypes
    /\ "VeganeL" \in Range(types)
    /\ aPourIngredient[recette] # <<>>

\* the reasoner marked a recipe vegan
C5_WitnessDerived == AfterTypes /\ "Vegane" \in Range(types)

\* C6: check_compatibility is, for Vegetarien, no Viande and no
\* ProduitMarin; for Vegane, no animal product; for SansGluten and
\* AllergieGluten alike, no CerealeAvecGluten; for AllergieLactose, no
\* ProduitLaitier; for a name outside the recognised profiles, true.
C6_Compatibility ==
    lastCall = "check_compatibility" =>
        LET cats == CategoriesOf(recette)
        IN  /\ profile = "Vegetarien"
                  => (ret <=> cats \cap {"Viande", "ProduitMarin"} = {})
            /\ profile = "Vegane" => (ret <=> cats \cap AnimalProduct = {})
            /\ profile \in {"SansGluten", "AllergieGluten"}
                  => (ret <=> "CerealeAvecGluten" \notin cats)
            /\ profile = "AllergieLactose"
                  => (ret <=> "ProduitLaitier" \notin cats)
            /\ profile \in {"Keto", "Tous"} => ret

\* the allergy name rejected a recipe with gluten
C6_Witness ==
    /\ lastCall = "check_compatibility"
    /\ profile = "AllergieGluten"
    /\ "CerealeAvecGluten" \in CategoriesOf(recette)
    /\ ret = FALSE

\* an unknown profile accepted a recipe with meat
C6_WitnessUnknown ==
    /\ lastCall = "check_compatibility"
    /\ profile = "Keto"
    /\ "Viande" \in CategoriesOf(recette)
    /\ ret

\* C7: the labels of get_inferred_types have one source: the derived labels
\* alone when the reasoner derived a category for the recipe, the fallback
\* labels alone when it derived none.
C7_OneSource ==
    AfterTypes =>
        /\ ~NothingDerived(recette)
              => /\ types = reasoner_types(is_a[recette])
                 /\ Range(types) \cap FallbackLabels = {}
        /\ NothingDerived(recette)
              => /\ types = fallback_types(aPourIngredient[recette])
                 /\ Range(types) \cap ReasonerLabels = {}
        /\ \/ Range(types) \subseteq ReasonerLabels
           \/ Range(types) \subseteq FallbackLabels

\* derived labels returned for a recipe whose fallback labels would differ
C7_Witness ==
    /\ AfterTypes
    /\ ~NothingDerived(recette)
    /\ types # <<>>
    /\ fallback_types(aPourIngredient[recette]) # <<>>

----------------------------------------------------------------------------
(* Spec: the page.  Every interaction runs the script from its top: the    *)
(* startup closure and save, then the handler of the widget that was used. *)

\* the closure facts a recipe of the loaded file can hold for the list l:
\* up to MaxClosures facts over l or over l without its last ingredient
LoadedFacts(l) ==
    LET older == SubSeq(l, 1, Len(l) - 1)
        facts == {OnlyOneOf("aPourIngredient", x) : x \in {l, older} \ {<<>>}}
    IN  IF l = <<>> THEN {<<>>} ELSE SeqsUpTo(facts, MaxClosures)

\* the recipes of the default data, cut to the individuals of StoreNames
DefaultRecipes ==
    [r \in RecipeNames |->
        IF r = "PouletRoti" THEN <<"Poulet", "Tomate">>
        ELSE <<"Lentilles", "Tomate">>]

Init ==
    /\ ingredients \in SUBSET StoreNames
    /\ recipes \in SUBSET RecipeNames
    /\ aPourIngredient
          \in [RecipeNames -> Selections(ingredients, MaxIngredients)]
    /\ \A r \in RecipeNames \ recipes : aPourIngredient[r] = <<>>
    /\ \E fs \in [RecipeNames -> UNION {LoadedFacts(aPourIngredient[r]) :
                                            r \in RecipeNames}] :
         /\ \A r \in RecipeNames : fs[r] \in LoadedFacts(aPourIngredient[r])
         /\ is_a = [r \in RecipeNames |->
                      IF r \in recipes THEN <<ClassAx("Recette")>> \o fs[r]
                      ELSE <<>>]
    /\ pc = "top"
    /\ saved = <<>>
    /\ reasonerInput = <<>>
    /\ lastCall = "load"
    /\ handlerSaved = FALSE
    /\ mutated = FALSE
    /\ recette = "PouletRoti"
    /\ before = <<>>
    /\ streak = 0
    /\ ret = FALSE
    /\ types = <<>>
    /\ profile = "Tous"

unit == <<recette, before, streak, types, profile>>

\* the top of the script: apply_closure_to_all_recipes(onto), save_ontology
ScriptStart ==
    /\ pc = "top"
    /\ is_a' = apply_closure_to_all_recipes(recipes, aPourIngredient, is_a)
    /\ saved' = save_ontology([Store EXCEPT !.is_a = is_a'])
    /\ reasonerInput' = <<>>
    /\ pc' = "widgets"
    /\ UNCHANGED <<ingredients, recipes, aPourIngredient, lastCall,
                   handlerSaved, mutated, ret, unit>>

\* no button was pressed: the script draws the tabs and ends
Render ==
    /\ pc = "widgets"
    /\ pc' = "top"
    /\ lastCall' = "render"
    /\ handlerSaved' = FALSE
    /\ mutated' = FALSE
    /\ UNCHANGED <<ingredients, recipes, aPourIngredient, is_a, saved,
                   reasonerInput, ret, unit>>

\* the button of the default data: initialize_default_data, save, rerun
InitializeDefaultData ==
    /\ pc = "widgets"
    /\ IF ingredients # {}
       THEN UNCHANGED <<ingredients, recipes, aPourIngredient, is_a>>
       ELSE /\ ingredients' = StoreNames
            /\ recipes' = RecipeNames
            /\ aPourIngredient' = DefaultRecipes
            /\ is_a' = [r \in RecipeNames |->
                          IF r \in recipes THEN is_a[r]
                          ELSE <<ClassAx("Recette")>>]
    /\ handlerSaved' = TRUE
    /\ mutated' = (ingredients = {})
    /\ lastCall' = "initialize_default_data"
    /\ pc' = "top"
    /\ UNCHANGED <<reasonerInput, ret, unit>>
    /\ saved' = save_ontology(Store')

\* the button of the reasoner: run_reasoner_and_get_types and, when it
\* returned true, save and rerun; ok is whether sync_reasoner_pellet ran
RunReasoner(ok) ==
    LET closed == apply_closure_to_all_recipes(recipes, aPourIngredient, is_a)
    IN  /\ pc = "widgets"
        /\ reasonerInput' = <<[Store EXCEPT !.is_a = closed]>>
        /\ ret' = ok
        /\ IF ok
           THEN /\ is_a' = [r \in RecipeNames |->
                              IF r \in recipes
                              THEN sync_reasoner_pellet(closed[r],
                                                        aPourIngredient[r])
                              ELSE closed[r]]
                /\ saved' = save_ontology([Store EXCEPT !.is_a = is_a'])
                /\ handlerSaved' = TRUE
           ELSE /\ is_a' = closed
                /\ saved' = saved
                /\ handlerSaved' = FALSE
        /\ mutated' = (ClosureRewrites(recipes, aPourIngredient, is_a)
                        \/ is_a' # is_a)
        /\ lastCall' = "run_reasoner_and_get_types"
        /\ pc' = "top"
        /\ UNCHANGED <<ingredients, recipes, aPourIngredient, unit>>

\* the recipe form, submitted with a name and a selection of ingredients
AddRecipe(instance_name, selected_ingredients) ==
    LET old  == aPourIngredient[instance_name]
        new  == old \o selected_ingredients
        isa0 == IF instance_name \in recipes THEN is_a[instance_name]
                ELSE <<ClassAx("Recette")>>
    IN  /\ pc = "widgets"
        /\ selected_ingredients # <<>>
        /\ Len(new) <= MaxIngredients
        /\ recipes' = recipes \cup {instance_name}
        /\ aPourIngredient' = [aPourIngredient EXCEPT ![instance_name] = new]
        /\ is_a' = [is_a EXCEPT ![instance_name] =
                       apply_closure_to_recipe(isa0, new).is_a]
        /\ handlerSaved' = TRUE
        /\ mutated' = TRUE
        /\ lastCall' = "add_recipe"
        /\ pc' = "top"
        /\ UNCHANGED <<ingredients, reasonerInput, ret, unit>>
        /\ saved' = save_ontology(Store')

\* the bin of a recipe: destroy_entity(recette), save, rerun
DeleteRecipe(r) ==
    /\ pc = "widgets"
    /\ r \in recipes
    /\ recipes' = recipes \ {r}
    /\ aPourIngredient' = [aPourIngredient EXCEPT ![r] = <<>>]
    /\ is_a' = [is_a EXCEPT ![r] = <<>>]
    /\ handlerSaved' = TRUE
    /\ mutated' = TRUE
    /\ lastCall' = "delete_recipe"
    /\ pc' = "top"
    /\ UNCHANGED <<ingredients, reasonerInput, ret, unit>>
    /\ saved' = save_ontology(Store')

\* the ingredient form, submitted with a name and its category
AddIngredient(instance_name) ==
    /\ pc = "widgets"
    /\ ingredients' = ingredients \cup {instance_name}
    /\ handlerSaved' = TRUE
    /\ mutated' = (instance_name \notin ingredients)
    /\ lastCall' = "add_ingredient"
    /\ pc' = "top"
    /\ UNCHANGED <<recipes, aPourIngredient, is_a, reasonerInput, ret, unit>>
    /\ saved' = save_ontology(Store')

\* the bin of an ingredient: destroy_entity(ing), save, rerun
DeleteIngredient(ing, dropped) ==
    /\ pc = "widgets"
    /\ ing \in ingredients
    /\ ingredients' = ingredients \ {ing}
    /\ aPourIngredient' =
          [r \in RecipeNames |-> Without(aPourIngredient[r], ing)]
    /\ is_a' = [r \in RecipeNames |-> destroy_in_is_a(is_a[r], ing, dropped)]
    /\ handlerSaved' = TRUE
    /\ mutated' = TRUE
    /\ lastCall' = "delete_ingredient"
    /\ pc' = "top"
    /\ UNCHANGED <<recipes, reasonerInput, ret, unit>>
    /\ saved' = save_ontology(Store')

Next ==
    \/ ScriptStart
    \/ Render
    \/ InitializeDefaultData
    \/ \E ok \in BOOLEAN : RunReasoner(ok)
    \/ \E instance_name \in RecipeNames,
          selected_ingredients \in Selections(ingredients, MaxIngredients) :
          AddRecipe(instance_name, selected_ingredients)
    \/ \E r \in RecipeNames : DeleteRecipe(r)
    \/ \E instance_name \in StoreNames : AddIngredient(instance_name)
    \/ \E ing \in StoreNames, dropped \in BOOLEAN :
          DeleteIngredient(ing, dropped)

Spec == Init /\ [][Next]_vars

----------------------------------------------------------------------------
(* Claims on the page, checked under Spec *)

ReasonerFailed == lastCall = "run_reasoner_and_get_types" /\ ret = FALSE

\* the recipes of a store that have ingredients
NonEmptyRecipes(st) == {r \in st.recipes : st.aPourIngredient[r] # <<>>}

\* C8: the store handed to the reasoner is closed: every recipe with
\* ingredients holds exactly one closure fact, over its current list; none
\* has a missing or an older closure.
C8_ReasonerInputClosed ==
    reasonerInput # <<>> => Closed(reasonerInput[1])

\* the reasoner was started on a store with two recipes with ingredients
C8_Witness ==
    /\ reasonerInput # <<>>
    /\ lastCall = "run_reasoner_and_get_types"
    /\ NonEmptyRecipes(reasonerInput[1]) = RecipeNames

\* C9: at every call of save_ontology the store is closed: every recipe
\* with ingredients holds exactly one closure fact, over its current list.
C9_SavedStoreClosed ==
    saved # <<>> => Closed(saved[1])

\* C10 as stated: the startup closure and every handler that changes the
\* store call save_ontology before the next interaction, on the success and
\* on the failure path, and end on a store equal to the saved one.
C10_SaveAfterEveryAction ==
    /\ pc = "widgets" => saved = <<Store>>
    /\ (pc = "top" /\ mutated) => (handlerSaved /\ saved = <<Store>>)

\* C10: the startup closure and every handler that changes the store call
\* save_ontology before the next interaction, but for a reasoner run that
\* failed, whose handler does not save; every one of them, the failed
\* reasoner run too, ends on a store equal to the one last handed to
\* save_ontology.
C10_SaveUnlessReasonerFailed ==
    /\ pc = "widgets" => saved = <<Store>>
    /\ (pc = "top" /\ mutated /\ ~ReasonerFailed) => handlerSaved
    /\ (pc = "top" /\ mutated) => saved = <<Store>>

\* a failed reasoner run: no save by the handler, and the closure step left
\* the closure facts of the startup save in place
C10_Witness ==
    /\ pc = "top"
    /\ ReasonerFailed
    /\ mutated
    /\ handlerSaved = FALSE
    /\ NonEmptyRecipes(Store) # {}
    /\ saved = <<Store>>

====
